---------------------------- MODULE Spec2Model ----------------------------
(* Model of the numeric routines of the articulated package:                *)
(*   src/src/rythm.cpp      rPVI, nPVI, jitter_*, cppRelstab                *)
(*   src/src/sequence.cpp   missing values, changepoints, slope, prominence *)
(*   src/src/vowelspace.cpp cpp_vowel_center                                *)
(*   src/src/rhythm_extra.cpp cpp_cov5_x                                    *)
(* Every routine is a pure function of its arguments.  A call is one action *)
(* that draws the arguments from bounded sets and stores the returned value.*)
(*                                                                          *)
(* A C++ double is modelled as a pair <<n, d>> with d >= 0:                 *)
(*   d > 0      the rational n/d (kept in lowest terms),                    *)
(*   <<0, 0>>   NaN (R's NA_real_ is a NaN; "Undefined" in the spec),       *)
(*   <<1, 0>>   +Inf,  <<-1, 0>> -Inf.                                      *)
(* Arithmetic is exact: IEEE rounding and the sign of zero are not part of  *)
(* the model.  sqrt alone rounds: to a multiple of 1/SqrtScale.             *)
EXTENDS Integers, Sequences, FiniteSets, TLC

VARIABLES pc, call, ret

vars == <<pc, call, ret>>

----------------------------------------------------------------------------
(* Bounds of the model                                                      *)

\* rPVI / nPVI: longest input and largest element
MaxLenPvi == 3
MaxValPvi == 2

\* jitter_*: longest input and largest element
MaxLenJit == 5
MaxValJit == 1

\* cppRelstab: longest input and largest element
MaxLenRel == 5
MaxValRel == 1

\* sequence.cpp routines: longest input and largest element
MaxLenSeq == 4
MaxValSeq == 1

\* cpp_vowel_center: longest input and largest formant value
MaxLenVow == 3
MaxValVow == 1

\* cpp_cov5_x: longest input and largest element
MaxLenCov == 6
MaxValCov == 1

\* sqrt is rounded down to a multiple of 1/SqrtScale
SqrtScale == 100

----------------------------------------------------------------------------
(* double arithmetic                                                        *)

NaN == <<0, 0>>
NegInf == <<0 - 1, 0>>
Num(v) == <<v, 1>>

IsNaN(a) == a[1] = 0 /\ a[2] = 0
IsInf(a) == a[1] # 0 /\ a[2] = 0
IsFinite(a) == a[2] > 0

IAbs(n) == IF n < 0 THEN 0 - n ELSE n
Sgn(n) == IF n < 0 THEN 0 - 1 ELSE IF n > 0 THEN 1 ELSE 0

RECURSIVE GCD(_, _)
GCD(a, b) == IF b = 0 THEN a ELSE GCD(b, a % b)

\* lowest terms; the infinities and NaN keep their canonical pair
Norm(a) ==
  IF a[2] = 0 THEN <<Sgn(a[1]), 0>>
  ELSE IF a[1] = 0 THEN <<0, 1>>
  ELSE LET g == GCD(IAbs(a[1]), a[2]) IN <<a[1] \div g, a[2] \div g>>

DNeg(a) == <<0 - a[1], a[2]>>
DAbs(a) == <<IAbs(a[1]), a[2]>>

DAdd(a, b) ==
  IF IsNaN(a) \/ IsNaN(b) THEN NaN
  ELSE IF IsInf(a) /\ IsInf(b) THEN (IF a = b THEN a ELSE NaN)
  ELSE IF IsInf(a) THEN a
  ELSE IF IsInf(b) THEN b
  ELSE Norm(<<a[1] * b[2] + b[1] * a[2], a[2] * b[2]>>)

DSub(a, b) == DAdd(a, DNeg(b))

\* Inf * 0 and NaN * x come out as <<0, 0>>
DMul(a, b) == Norm(<<a[1] * b[1], a[2] * b[2]>>)

\* 1/0 is Inf, 1/Inf is 0, 1/NaN is NaN
DInv(a) == IF a[1] < 0 THEN <<0 - a[2], 0 - a[1]>> ELSE <<a[2], a[1]>>
DDiv(a, b) == DMul(a, DInv(b))

\* a < b; any comparison with NaN is false
DLt(a, b) ==
  /\ ~IsNaN(a)
  /\ ~IsNaN(b)
  /\ IF IsFinite(a) /\ IsFinite(b) THEN a[1] * b[2] < b[1] * a[2]
     ELSE IF IsInf(a) /\ IsInf(b) THEN a[1] < b[1]
     ELSE IF IsInf(a) THEN a[1] < 0
     ELSE b[1] > 0
DEq(a, b) == ~IsNaN(a) /\ ~IsNaN(b) /\ a = b
DLe(a, b) == DLt(a, b) \/ DEq(a, b)
DGe(a, b) == DLe(b, a)
DGt(a, b) == DLt(b, a)

\* the largest r in lo..hi with r * r <= m (lo * lo <= m < (hi + 1) * (hi + 1))
RECURSIVE ISqrt(_, _, _)
ISqrt(m, lo, hi) ==
  IF lo = hi THEN lo
  ELSE LET mid == (lo + hi + 1) \div 2
       IN IF mid * mid <= m THEN ISqrt(m, mid, hi) ELSE ISqrt(m, lo, mid - 1)

\* sqrt(a): NaN for NaN and for a < 0, Inf for Inf
DSqrt(a) ==
  IF IsNaN(a) \/ a[1] < 0 THEN NaN
  ELSE IF IsInf(a) THEN a
  ELSE LET m == (a[1] * SqrtScale * SqrtScale) \div a[2]
       IN Norm(<<ISqrt(m, 0, m), SqrtScale>>)

\* (int) v for a finite v: truncation toward zero
Trunc(a) == Sgn(a[1]) * (IAbs(a[1]) \div a[2])

----------------------------------------------------------------------------
(* helpers shared by the routines                                           *)

\* sequences over S of length 0..n
SeqsUpTo(S, n) == UNION {[1..k -> S] : k \in 0..n}

\* x[i] with the 0-based index of the C++ source
At(x, i) == x[i + 1]

\* x[!is_na(x)]
FilterNa(x) == SelectSeq(x, LAMBDA v : ~IsNaN(v))

\* x[i] where the vector holds fewer than i+1 elements reads past its end:
\* the value read is whatever lies there, g[i - size] in the model
Read(x, g, i) == IF i < Len(x) THEN At(x, i) ELSE g[i - Len(x) + 1]

Reverse(x) == [i \in 1..Len(x) |-> x[Len(x) + 1 - i]]

Value(v) == [kind |-> "value", val |-> v]

----------------------------------------------------------------------------
(* src/src/rythm.cpp: rPVI, nPVI                                            *)

\* abs(v) as written in rPVI and nPVI (unqualified).  Where only ::abs(int)
\* is visible the argument is converted to int first (absInt); converting a
\* non-finite double to int is undefined and yields junk.
abs_signed(v, absInt, junk) == v
abs(v, absInt, junk) ==
  IF ~absInt THEN DAbs(v)
  ELSE IF IsFinite(v) THEN Num(IAbs(Trunc(v)))
  ELSE junk

\* the loop of rPVI: total after the iterations i = 1..k
RECURSIVE rPVI_total(_, _, _, _, _)
rPVI_total(x, g, k, absInt, junk) ==
  IF k = 0 THEN Num(0)
  ELSE DAdd(rPVI_total(x, g, k - 1, absInt, junk),
            abs(DSub(Read(x, g, k), Read(x, g, k - 1)), absInt, junk))

\* n is taken before the filter is applied
rPVI(x, narm, g, absInt, junk) ==
  LET n  == Len(x)
      xf == IF narm THEN FilterNa(x) ELSE x
  IN IF n > 1
     THEN [kind |-> "value",
           val  |-> DDiv(rPVI_total(xf, g, n - 1, absInt, junk), Num(n - 1)),
           oob  |-> n > Len(xf)]
     ELSE [kind |-> "value", val |-> NaN, oob |-> FALSE]

RECURSIVE nPVI_total(_, _, _, _)
nPVI_total(x, k, absInt, junk) ==
  IF k = 0 THEN Num(0)
  ELSE LET ud == DSub(At(x, k), At(x, k - 1))
           ld == DDiv(DAdd(At(x, k), At(x, k - 1)), Num(2))
       IN DAdd(nPVI_total(x, k - 1, absInt, junk),
               abs(DDiv(ud, ld), absInt, junk))

nPVI(x, narm, absInt, junk) ==
  LET xf == IF narm THEN FilterNa(x) ELSE x
      n  == Len(xf)
  IN IF n > 1
     THEN Value(DMul(DDiv(nPVI_total(xf, n - 1, absInt, junk), Num(n - 1)),
                     Num(100)))
     ELSE Value(NaN)

----------------------------------------------------------------------------
(* src/src/rythm.cpp: jitter_local, jitter_ddp, jitter_rap, jitter_ppq5     *)

InPeriod_min_only(v, minperiod, maxperiod) == DGe(v, Num(minperiod))
\* v >= minperiod && v <= maxperiod
InPeriod(v, minperiod, maxperiod) ==
  DGe(v, Num(minperiod)) /\ DLe(v, Num(maxperiod))

Jitter(jitt, totaldev, sum) ==
  [kind |-> "value", val |-> jitt, totaldev |-> totaldev, sum |-> sum]

\* jitt = totaldev / div; if (!absolute) jitt = jitt / (sum / n)
jitt_of(acc, div, n, absolute) ==
  LET jitt == DDiv(acc.totaldev, Num(div))
  IN Jitter(IF absolute THEN jitt ELSE DDiv(jitt, DDiv(acc.sum, Num(n))),
            acc.totaldev, acc.sum)

\* the length guards
local_guard(n) == n > 1
ddp_guard_old(n) == n > 1
ddp_guard(n) == n > 3
rap_guard(n) == n > 3
ppq5_guard(n) == n > 4

\* totaldev and sum after the iterations i = 1..k of jitter_local
RECURSIVE jitter_local_loop(_, _, _, _)
jitter_local_loop(x, k, minperiod, maxperiod) ==
  IF k = 0 THEN [totaldev |-> Num(0), sum |-> At(x, 0)]
  ELSE LET acc == jitter_local_loop(x, k - 1, minperiod, maxperiod)
           x1  == At(x, k - 1)
           x2  == At(x, k)
       IN IF InPeriod(x1, minperiod, maxperiod) /\ InPeriod(x2, minperiod, maxperiod)
          THEN [totaldev |-> DAdd(acc.totaldev, DAbs(DSub(x2, x1))),
                sum      |-> DAdd(acc.sum, x2)]
          ELSE acc

jitter_local(x, minperiod, maxperiod, absolute, narm) ==
  LET xf == IF narm THEN FilterNa(x) ELSE x
      n  == Len(xf)
  IN IF local_guard(n)
     THEN jitt_of(jitter_local_loop(xf, n - 1, minperiod, maxperiod),
                  n - 1, n, absolute)
     ELSE Jitter(NaN, Num(0), Num(0))

\* totaldev and sum after the iterations i = 1..k of jitter_ddp
RECURSIVE jitter_ddp_loop(_, _, _, _)
jitter_ddp_loop(x, k, minperiod, maxperiod) ==
  IF k = 0 THEN [totaldev |-> Num(0), sum |-> DAdd(At(x, 0), At(x, Len(x) - 1))]
  ELSE LET acc == jitter_ddp_loop(x, k - 1, minperiod, maxperiod)
           xn1 == At(x, k - 1)
           xi  == At(x, k)
           xp1 == At(x, k + 1)
       IN IF InPeriod(xi, minperiod, maxperiod)
          THEN [totaldev |-> DAdd(acc.totaldev,
                                  DAbs(DSub(DSub(xp1, xi), DSub(xi, xn1)))),
                sum      |-> DAdd(acc.sum, xi)]
          ELSE acc

jitter_ddp(x, minperiod, maxperiod, absolute, narm) ==
  LET xf == IF narm THEN FilterNa(x) ELSE x
      n  == Len(xf)
  IN IF ddp_guard(n)
     THEN jitt_of(jitter_ddp_loop(xf, n - 2, minperiod, maxperiod),
                  n - 2, n, absolute)
     ELSE Jitter(NaN, Num(0), Num(0))

\* totaldev and sum after the iterations i = 1..k of jitter_rap
RECURSIVE jitter_rap_loop(_, _, _, _)
jitter_rap_loop(x, k, minperiod, maxperiod) ==
  IF k = 0 THEN [totaldev |-> Num(0), sum |-> DAdd(At(x, 0), At(x, Len(x) - 1))]
  ELSE LET acc == jitter_rap_loop(x, k - 1, minperiod, maxperiod)
           xn1 == At(x, k - 1)
           xi  == At(x, k)
           xp1 == At(x, k + 1)
       IN IF InPeriod(xi, minperiod, maxperiod)
          THEN [totaldev |-> DAdd(acc.totaldev,
                                  DAbs(DSub(xi, DDiv(DAdd(DAdd(xn1, xi), xp1),
                                                     Num(3))))),
                sum      |-> DAdd(acc.sum, xi)]
          ELSE acc

jitter_rap(x, minperiod, maxperiod, absolute, narm) ==
  LET xf == IF narm THEN FilterNa(x) ELSE x
      n  == Len(xf)
  IN IF rap_guard(n)
     THEN jitt_of(jitter_rap_loop(xf, n - 2, minperiod, maxperiod),
                  n - 2, n, absolute)
     ELSE Jitter(NaN, Num(0), Num(0))

\* totaldev and sum after the iterations i = 2..k of jitter_ppq5
RECURSIVE jitter_ppq5_loop(_, _, _, _)
jitter_ppq5_loop(x, k, minperiod, maxperiod) ==
  IF k = 1
  THEN [totaldev |-> Num(0),
        sum |-> DAdd(DAdd(DAdd(At(x, 0), At(x, 1)), At(x, Len(x) - 1)),
                     At(x, Len(x) - 2))]
  ELSE LET acc == jitter_ppq5_loop(x, k - 1, minperiod, maxperiod)
           xn2 == At(x, k - 2)
           xn1 == At(x, k - 1)
           xi  == At(x, k)
           xp1 == At(x, k + 1)
           xp2 == At(x, k + 2)
       IN IF InPeriod(xi, minperiod, maxperiod)
          THEN [totaldev |->
                  DAdd(acc.totaldev,
                       DAbs(DSub(xi,
                                 DDiv(DAdd(DAdd(DAdd(DAdd(xn2, xn1), xi), xp1), xp2),
                                      Num(5))))),
                sum |-> DAdd(acc.sum, xi)]
          ELSE acc

jitter_ppq5(x, minperiod, maxperiod, absolute, narm) ==
  LET xf == IF narm THEN FilterNa(x) ELSE x
      n  == Len(xf)
  IN IF ppq5_guard(n)
     THEN jitt_of(jitter_ppq5_loop(xf, n - 3, minperiod, maxperiod),
                  n - 4, n, absolute)
     ELSE Jitter(NaN, Num(0), Num(0))

----------------------------------------------------------------------------
(* src/src/rythm.cpp: cppRelstab                                            *)

relstab_bad_start_4(compstart) == compstart < 4
\* if(compstart < 5) Rcpp::stop(...)
relstab_bad_start(compstart) == compstart < 5

\* Sum of x[i] for i = lo..hi, in loop order
RECURSIVE SumRead(_, _, _, _)
SumRead(x, g, lo, hi) ==
  IF hi < lo THEN Num(0)
  ELSE DAdd(SumRead(x, g, lo, hi - 1), Read(x, g, hi))

\* the 0-based positions read by a call that passes the length test
relstab_reads(compstart, compstop) == (0..3) \cup ((compstart - 1)..(compstop - 1))

cppRelstab(x, compstart, compstop, narm, g) ==
  LET xf == IF narm THEN FilterNa(x) ELSE x
      n  == Len(xf)
  IN IF relstab_bad_start(compstart)
     THEN [kind |-> "error", reads |-> {}, oob |-> FALSE]
     ELSE IF n >= compstop - 1
     THEN LET refsum  == SumRead(xf, g, 0, 3)
              compsum == SumRead(xf, g, compstart - 1, compstop - 1)
              reads   == relstab_reads(compstart, compstop)
          IN [kind  |-> "value",
              val   |-> DMul(DDiv(compsum, refsum), Num(100)),
              reads |-> reads,
              oob   |-> \E i \in reads : i >= n]
     ELSE [kind |-> "value", val |-> NaN, reads |-> {}, oob |-> FALSE]

----------------------------------------------------------------------------
(* src/src/sequence.cpp                                                     *)

\* R's NA_integer_ is INT_MIN
NA_INTEGER == (0 - 2147483647) - 1

\* NumericVector::is_na(x[i]) || x[i] <= what_na
cpp_missing_vec_strict(x, what_na) ==
  [i \in 1..Len(x) |-> IsNaN(x[i]) \/ DLt(x[i], what_na)]
cpp_missing_vec_numeric(x, what_na) ==
  [i \in 1..Len(x) |-> IsNaN(x[i]) \/ DLe(x[i], what_na)]

\* count after looking at is_missing[0..k-1]
RECURSIVE missing_count(_, _)
missing_count(m, k) ==
  IF k = 0 THEN 0
  ELSE missing_count(m, k - 1) + (IF m[k] THEN 1 ELSE 0)

cpp_missing_frac(x, what_na) ==
  LET is_missing == cpp_missing_vec_numeric(x, what_na)
      n == Len(is_missing)
  IN IF n = 0 THEN Value(NaN)
     ELSE Value(DDiv(Num(missing_count(is_missing, n)), Num(n)))

\* the scan of cpp_left_changepoint from 0-based i on: return at the first flip
RECURSIVE left_scan_0based(_, _)
left_scan_0based(m, i) ==
  IF i >= Len(m) THEN NA_INTEGER
  ELSE IF At(m, i) # At(m, i - 1) THEN i
  ELSE left_scan_0based(m, i + 1)
RECURSIVE left_scan(_, _)
left_scan(m, i) ==
  IF i >= Len(m) THEN NA_INTEGER
  ELSE IF At(m, i) # At(m, i - 1) THEN i + 1
  ELSE left_scan(m, i + 1)

cpp_left_changepoint(x, what_na) ==
  LET m == cpp_missing_vec_numeric(x, what_na)
      n == Len(m)
  IN IF n < 2 THEN [kind |-> "int", val |-> NA_INTEGER]
     ELSE [kind |-> "int", val |-> left_scan(m, 1)]

\* last_cp after the iterations i = 1..k of cpp_right_changepoint
RECURSIVE right_scan(_, _)
right_scan(m, k) ==
  IF k = 0 THEN NA_INTEGER
  ELSE IF At(m, k) # At(m, k - 1) THEN k + 1
  ELSE right_scan(m, k - 1)

cpp_right_changepoint(x, what_na) ==
  LET m == cpp_missing_vec_numeric(x, what_na)
      n == Len(m)
  IN IF n < 2 THEN [kind |-> "int", val |-> NA_INTEGER]
     ELSE [kind |-> "int", val |-> right_scan(m, n - 1)]

\* x_clean.push_back(i + 1) for the 0-based i
lm_position_const(i) == 1
lm_position(i) == i + 1

\* if (n < 2) return R_NaReal
lm_short(n) == n < 2

\* Sum of s[1..k], in loop order
RECURSIVE SumSeq(_, _)
SumSeq(s, k) == IF k = 0 THEN Num(0) ELSE DAdd(SumSeq(s, k - 1), s[k])

\* The regression both cpp_lm_slope and cpp_peak_prominence compute (the two
\* functions hold the same statements): cleaned data, means, num and denom
lm_fit(y, what_na) ==
  LET missing == cpp_missing_vec_numeric(y, what_na)
      kept    == SelectSeq([i \in 1..Len(y) |-> i - 1], LAMBDA i : ~At(missing, i))
      y_clean == [k \in 1..Len(kept) |-> At(y, kept[k])]
      x_clean == [k \in 1..Len(kept) |-> Num(lm_position(kept[k]))]
      n       == Len(y_clean)
      mean_x  == DDiv(SumSeq(x_clean, n), Num(n))
      mean_y  == DDiv(SumSeq(y_clean, n), Num(n))
      dx      == [k \in 1..n |-> DSub(x_clean[k], mean_x)]
      dy      == [k \in 1..n |-> DSub(y_clean[k], mean_y)]
  IN [n |-> n, x_clean |-> x_clean, y_clean |-> y_clean,
      mean_x |-> mean_x, mean_y |-> mean_y,
      num   |-> SumSeq([k \in 1..n |-> DMul(dx[k], dy[k])], n),
      denom |-> SumSeq([k \in 1..n |-> DMul(dx[k], dx[k])], n)]

Trend(v, branch, fit) ==
  [kind |-> "value", val |-> v, branch |-> branch, n |-> fit.n,
   x_clean |-> fit.x_clean, denom |-> IF branch = "short" THEN NaN ELSE fit.denom]

cpp_lm_slope(y, what_na) ==
  LET fit == lm_fit(y, what_na)
  IN IF lm_short(fit.n) THEN Trend(NaN, "short", fit)
     ELSE IF DEq(fit.denom, Num(0)) THEN Trend(NaN, "zerovar", fit)
     ELSE Trend(DDiv(fit.num, fit.denom), "fit", fit)

\* max_resid after the residuals of the points 1..k
RECURSIVE max_resid(_, _, _, _)
max_resid(fit, slope, intercept, k) ==
  IF k = 0 THEN NegInf
  ELSE LET prev      == max_resid(fit, slope, intercept, k - 1)
           predicted == DAdd(intercept, DMul(slope, fit.x_clean[k]))
           residual  == DSub(fit.y_clean[k], predicted)
       IN IF DGt(residual, prev) THEN residual ELSE prev

cpp_peak_prominence(y, what_na) ==
  LET fit == lm_fit(y, what_na)
  IN IF fit.n < 2 THEN Trend(NaN, "short", fit)
     ELSE IF DEq(fit.denom, Num(0)) THEN Trend(NaN, "zerovar", fit)
     ELSE LET slope     == DDiv(fit.num, fit.denom)
              intercept == DSub(fit.mean_y, DMul(slope, fit.mean_x))
          IN Trend(max_resid(fit, slope, intercept, fit.n), "fit", fit)

----------------------------------------------------------------------------
(* src/src/vowelspace.cpp: cpp_vowel_center                                 *)

\* Rcpp's mean(v)
mean(v) == DDiv(SumSeq(v, Len(v)), Num(Len(v)))

Center(f1c, f2c, f1_clean, f2_clean) ==
  [kind |-> "pair", f1c |-> f1c, f2c |-> f2c,
   f1_clean |-> f1_clean, f2_clean |-> f2_clean]

\* if (n == 0) return (NA, NA): tested before the method is looked at
vowel_empty(n) == n = 0

\* LogicalVector valid = !is_na(f1) & !is_na(f2)
vowel_valid_f1_only(f1, f2) == [i \in 1..Len(f1) |-> ~IsNaN(f1[i])]
vowel_valid(f1, f2) == [i \in 1..Len(f1) |-> ~IsNaN(f1[i]) /\ ~IsNaN(f2[i])]

\* f[valid]
Subset(f, valid) ==
  LET kept == SelectSeq([i \in 1..Len(f) |-> i], LAMBDA i : valid[i])
  IN [k \in 1..Len(kept) |-> f[kept[k]]]

\* mean of a std::vector<double> group, 0.0 when the group is empty
group_mean(grp) == IF Len(grp) = 0 THEN Num(0) ELSE mean(grp)

\* if (f1_clean[i] > f1c): the point goes to f2_upper, else to f2_lower
twomeans_upper_ge(v, f1c) == DGe(v, f1c)
twomeans_upper(v, f1c) == DGt(v, f1c)

cpp_vowel_center(f1, f2, method, na_rm) ==
  LET valid    == vowel_valid(f1, f2)
      f1_clean == IF na_rm THEN Subset(f1, valid) ELSE f1
      f2_clean == IF na_rm THEN Subset(f2, valid) ELSE f2
      n        == Len(f1_clean)
      f1c      == mean(f1_clean)
  IN IF vowel_empty(n) THEN Center(NaN, NaN, f1_clean, f2_clean)
     ELSE IF method = "centroid"
     THEN Center(f1c, mean(f2_clean), f1_clean, f2_clean)
     ELSE IF method = "twomeans"
     THEN LET upper == [i \in 1..n |-> twomeans_upper(f1_clean[i], f1c)]
              f2_upper == Subset(f2_clean, upper)
              f2_lower == Subset(f2_clean, [i \in 1..n |-> ~upper[i]])
              f2cH == group_mean(f2_upper)
              f2cL == group_mean(f2_lower)
          IN [kind |-> "pair", f1c |-> f1c,
              f2c |-> DDiv(DAdd(f2cH, f2cL), Num(2)),
              f1_clean |-> f1_clean, f2_clean |-> f2_clean,
              f2_upper |-> f2_upper, f2_lower |-> f2_lower]
     ELSE IF method = "wcentroid"
     THEN LET f2_lower == Subset(f2_clean, [i \in 1..n |-> DLt(f1_clean[i], f1c)])
          IN IF Len(f2_lower) # 0
             THEN Center(f1c, mean(f2_lower), f1_clean, f2_clean)
             ELSE Center(f1c, mean(f2_clean), f1_clean, f2_clean)
     ELSE [kind |-> "error", f1_clean |-> f1_clean, f2_clean |-> f2_clean]

----------------------------------------------------------------------------
(* src/src/rhythm_extra.cpp: cpp_cov5_x                                     *)

\* the 0-based positions read by a call that passes the length test
cov5_reads(n) == (0..3) \cup (4..(n - 1))

\* sum of (x[i] - comp_mean)^2 for i = lo..hi, in loop order
RECURSIVE SumSqRead(_, _, _, _, _)
SumSqRead(x, g, comp_mean, lo, hi) ==
  IF hi < lo THEN Num(0)
  ELSE LET diff == DSub(Read(x, g, hi), comp_mean)
       IN DAdd(SumSqRead(x, g, comp_mean, lo, hi - 1), DMul(diff, diff))

cpp_cov5_x(x, n, return_na, na_rm, g) ==
  LET xf == IF na_rm THEN FilterNa(x) ELSE x
      N  == Len(xf)
  IN IF N < n
     THEN (IF return_na
           THEN [kind |-> "value", val |-> NaN, branch |-> "short",
                 reads |-> {}, oob |-> FALSE, comp_n |-> n - 4]
           ELSE [kind |-> "error", branch |-> "short",
                 reads |-> {}, oob |-> FALSE, comp_n |-> n - 4])
     ELSE LET ref_mean  == DDiv(SumRead(xf, g, 0, 3), Num(4))
              comp_n    == n - 4
              comp_mean == DDiv(SumRead(xf, g, 4, n - 1), Num(comp_n))
              sum_sq    == SumSqRead(xf, g, comp_mean, 4, n - 1)
              comp_sd   == DSqrt(DDiv(sum_sq, Num(comp_n - 1)))
          IN [kind   |-> "value",
              val    |-> DMul(DDiv(comp_sd, DDiv(ref_mean, DSqrt(Num(comp_n)))),
                              Num(100)),
              branch |-> "computed",
              reads  |-> cov5_reads(n),
              oob    |-> \E i \in cov5_reads(n) : i >= N,
              comp_n |-> comp_n]

----------------------------------------------------------------------------
(* calls                                                                    *)

ValsPvi == {NaN} \cup {Num(v) : v \in 0..MaxValPvi}
FiniteValsPvi == {Num(v) : v \in 0..MaxValPvi}

\* what abs yields for a non-finite argument when it is ::abs(int)
JunkFor(absInt) == IF absInt THEN FiniteValsPvi ELSE {Num(0)}

Init ==
  /\ pc = "idle"
  /\ call = [fn |-> "none"]
  /\ ret = [kind |-> "none"]

Call_rPVI ==
  /\ pc = "idle"
  /\ \E x \in SeqsUpTo(ValsPvi, MaxLenPvi), narm \in BOOLEAN, absInt \in BOOLEAN :
       LET past == IF narm THEN Len(x) - Len(FilterNa(x)) ELSE 0
       IN \E g \in [1..past -> ValsPvi], junk \in JunkFor(absInt) :
            /\ call' = [fn |-> "rPVI", x |-> x, narm |-> narm, g |-> g,
                        absInt |-> absInt, junk |-> junk]
            /\ ret' = rPVI(x, narm, g, absInt, junk)
  /\ pc' = "done"

Call_nPVI ==
  /\ pc = "idle"
  /\ \E x \in SeqsUpTo(ValsPvi, MaxLenPvi), narm \in BOOLEAN, absInt \in BOOLEAN :
       \E junk \in JunkFor(absInt) :
            /\ call' = [fn |-> "nPVI", x |-> x, narm |-> narm,
                        absInt |-> absInt, junk |-> junk]
            /\ ret' = nPVI(x, narm, absInt, junk)
  /\ pc' = "done"

ValsJit == {NaN} \cup {Num(v) : v \in 0..MaxValJit}

\* [minperiod, maxperiod]: around the smallest element, around 1, above it
Periods == {<<0, 0>>, <<1, 1>>, <<2, 3>>}

CallJitter(fn, x, p, absolute, narm, r) ==
  /\ call' = [fn |-> fn, x |-> x, minperiod |-> p[1], maxperiod |-> p[2],
              absolute |-> absolute, narm |-> narm]
  /\ ret' = r
  /\ pc' = "done"

Call_jitter_local ==
  /\ pc = "idle"
  /\ \E x \in SeqsUpTo(ValsJit, MaxLenJit), p \in Periods,
        absolute \in BOOLEAN, narm \in BOOLEAN :
       CallJitter("jitter_local", x, p, absolute, narm,
                  jitter_local(x, p[1], p[2], absolute, narm))

Call_jitter_ddp ==
  /\ pc = "idle"
  /\ \E x \in SeqsUpTo(ValsJit, MaxLenJit), p \in Periods,
        absolute \in BOOLEAN, narm \in BOOLEAN :
       CallJitter("jitter_ddp", x, p, absolute, narm,
                  jitter_ddp(x, p[1], p[2], absolute, narm))

Call_jitter_rap ==
  /\ pc = "idle"
  /\ \E x \in SeqsUpTo(ValsJit, MaxLenJit), p \in Periods,
        absolute \in BOOLEAN, narm \in BOOLEAN :
       CallJitter("jitter_rap", x, p, absolute, narm,
                  jitter_rap(x, p[1], p[2], absolute, narm))

Call_jitter_ppq5 ==
  /\ pc = "idle"
  /\ \E x \in SeqsUpTo(ValsJit, MaxLenJit), p \in Periods,
        absolute \in BOOLEAN, narm \in BOOLEAN :
       CallJitter("jitter_ppq5", x, p, absolute, narm,
                  jitter_ppq5(x, p[1], p[2], absolute, narm))

ValsRel == {NaN} \cup {Num(v) : v \in 0..MaxValRel}
CompStarts == 4..6
CompStops == 1..(MaxLenRel + 2)

Max(S) == CHOOSE m \in S : \A k \in S : k <= m

\* how many elements an execution reads past the end of the filtered vector
relstab_past(x, compstart, compstop, narm) ==
  LET n == Len(IF narm THEN FilterNa(x) ELSE x)
  IN IF ~relstab_bad_start(compstart) /\ n >= compstop - 1
     THEN Max(relstab_reads(compstart, compstop) \cup {n - 1}) + 1 - n
     ELSE 0

Call_cppRelstab ==
  /\ pc = "idle"
  /\ \E x \in SeqsUpTo(ValsRel, MaxLenRel), compstart \in CompStarts,
        compstop \in CompStops, narm \in BOOLEAN :
       \E g \in [1..relstab_past(x, compstart, compstop, narm) -> ValsRel] :
         /\ call' = [fn |-> "cppRelstab", x |-> x, compstart |-> compstart,
                     compstop |-> compstop, narm |-> narm, g |-> g]
         /\ ret' = cppRelstab(x, compstart, compstop, narm, g)
  /\ pc' = "done"

ValsSeq == {NaN} \cup {Num(v) : v \in (0 - 1)..MaxValSeq}
Thresholds == {NaN, Num(0), Num(1)}

CallSeq(fn, x, what_na, r) ==
  /\ call' = [fn |-> fn, x |-> x, what_na |-> what_na]
  /\ ret' = r
  /\ pc' = "done"

Call_cpp_missing_frac ==
  /\ pc = "idle"
  /\ \E x \in SeqsUpTo(ValsSeq, MaxLenSeq), what_na \in Thresholds :
       CallSeq("cpp_missing_frac", x, what_na, cpp_missing_frac(x, what_na))

Call_cpp_left_changepoint ==
  /\ pc = "idle"
  /\ \E x \in SeqsUpTo(ValsSeq, MaxLenSeq), what_na \in Thresholds :
       CallSeq("cpp_left_changepoint", x, what_na, cpp_left_changepoint(x, what_na))

Call_cpp_right_changepoint ==
  /\ pc = "idle"
  /\ \E x \in SeqsUpTo(ValsSeq, MaxLenSeq), what_na \in Thresholds :
       CallSeq("cpp_right_changepoint", x, what_na, cpp_right_changepoint(x, what_na))

Call_cpp_lm_slope ==
  /\ pc = "idle"
  /\ \E y \in SeqsUpTo(ValsSeq, MaxLenSeq), what_na \in Thresholds :
       CallSeq("cpp_lm_slope", y, what_na, cpp_lm_slope(y, what_na))

Call_cpp_peak_prominence ==
  /\ pc = "idle"
  /\ \E y \in SeqsUpTo(ValsSeq, MaxLenSeq), what_na \in Thresholds :
       CallSeq("cpp_peak_prominence", y, what_na, cpp_peak_prominence(y, what_na))

ValsVow == {NaN} \cup {Num(v) : v \in 0..MaxValVow}
Methods == {"centroid", "twomeans", "wcentroid", "median"}

\* f1 and f2 are paired: same length
Call_cpp_vowel_center ==
  /\ pc = "idle"
  /\ \E k \in 0..MaxLenVow :
       \E f1 \in [1..k -> ValsVow], f2 \in [1..k -> ValsVow],
          method \in Methods, na_rm \in BOOLEAN :
         /\ call' = [fn |-> "cpp_vowel_center", f1 |-> f1, f2 |-> f2,
                     method |-> method, na_rm |-> na_rm]
         /\ ret' = cpp_vowel_center(f1, f2, method, na_rm)
  /\ pc' = "done"

ValsCov == {NaN} \cup {Num(v) : v \in 0..MaxValCov}
CovNs == (0 - 1)..(MaxLenCov + 1)

\* how many elements an execution reads past the end of the filtered vector
cov5_past(x, n, na_rm) ==
  LET N == Len(IF na_rm THEN FilterNa(x) ELSE x)
  IN IF N >= n THEN Max(cov5_reads(n) \cup {N - 1}) + 1 - N ELSE 0

Call_cpp_cov5_x ==
  /\ pc = "idle"
  /\ \E x \in SeqsUpTo(ValsCov, MaxLenCov), n \in CovNs,
        return_na \in BOOLEAN, na_rm \in BOOLEAN :
       \E g \in [1..cov5_past(x, n, na_rm) -> ValsCov] :
         /\ call' = [fn |-> "cpp_cov5_x", x |-> x, n |-> n,
                     return_na |-> return_na, na_rm |-> na_rm, g |-> g]
         /\ ret' = cpp_cov5_x(x, n, return_na, na_rm, g)
  /\ pc' = "done"

\* the caller takes the result; the next call starts from scratch
Return ==
  /\ pc = "done"
  /\ pc' = "idle"
  /\ call' = [fn |-> "none"]
  /\ ret' = [kind |-> "none"]

NextPvi == Call_rPVI \/ Call_nPVI \/ Return
SpecPvi == Init /\ [][NextPvi]_vars

NextJitter ==
  \/ Call_jitter_local
  \/ Call_jitter_ddp
  \/ Call_jitter_rap
  \/ Call_jitter_ppq5
  \/ Return
SpecJitter == Init /\ [][NextJitter]_vars

NextRelstab == Call_cppRelstab \/ Return
SpecRelstab == Init /\ [][NextRelstab]_vars

NextSeq ==
  \/ Call_cpp_missing_frac
  \/ Call_cpp_left_changepoint
  \/ Call_cpp_right_changepoint
  \/ Call_cpp_lm_slope
  \/ Call_cpp_peak_prominence
  \/ Return
SpecSeq == Init /\ [][NextSeq]_vars

NextVowel == Call_cpp_vowel_center \/ Return
SpecVowel == Init /\ [][NextVowel]_vars

NextCov == Call_cpp_cov5_x \/ Return
SpecCov == Init /\ [][NextCov]_vars

Next ==
  \/ Call_rPVI
  \/ Call_nPVI
  \/ Call_jitter_local
  \/ Call_jitter_ddp
  \/ Call_jitter_rap
  \/ Call_jitter_ppq5
  \/ Call_cppRelstab
  \/ Call_cpp_missing_frac
  \/ Call_cpp_left_changepoint
  \/ Call_cpp_right_changepoint
  \/ Call_cpp_lm_slope
  \/ Call_cpp_peak_prominence
  \/ Call_cpp_vowel_center
  \/ Call_cpp_cov5_x
  \/ Return
Spec == Init /\ [][Next]_vars

----------------------------------------------------------------------------
(* Properties                                                               *)

\* a call of fn has returned
Done(fn) == pc = "done" /\ call.fn = fn

\* the sequence a routine with the narm flag works on, as the spec defines it
Filtered(x, narm) == IF narm THEN FilterNa(x) ELSE x

NoNaN(x) == \A i \in 1..Len(x) : ~IsNaN(x[i])

\* Sum of f[i] over the finite set S
RECURSIVE SetSum(_, _)
SetSum(f, S) ==
  IF S = {} THEN Num(0)
  ELSE LET i == CHOOSE j \in S : TRUE IN DAdd(f[i], SetSum(f, S \ {i}))

Min(S) == CHOOSE m \in S : \A k \in S : m <= k

\* the elements of f at the positions in S, in their order
RECURSIVE KeepAt(_, _, _)
KeepAt(f, S, i) ==
  IF i > Len(f) THEN <<>>
  ELSE (IF i \in S THEN <<f[i]>> ELSE <<>>) \o KeepAt(f, S, i + 1)

\* C1: rPVI returns Undefined whenever the sequence left after the optional
\* NaN filtering has at most one element, and reads no position outside it.
C1_rPVI_short_is_undefined ==
  Done("rPVI") /\ Len(Filtered(call.x, call.narm)) <= 1
    => IsNaN(ret.val) /\ ~ret.oob

\* C2: vowel_center with a method other than centroid, twomeans, wcentroid
\* fails with Invalid-Argument for every input, empty ones included.
C2_unknown_method_fails ==
  Done("cpp_vowel_center") /\ call.method \notin {"centroid", "twomeans", "wcentroid"}
    => ret.kind = "error"

\* C3: relstab fails with Invalid-Argument exactly when compstart < 5,
\* whatever the sequence, compstop and remove_na are.
C3_relstab_fails_iff_compstart_below_5 ==
  Done("cppRelstab") => (ret.kind = "error" <=> call.compstart < 5)

C3_witness ==
  /\ Done("cppRelstab")
  /\ call.compstart = 4
  /\ call.x = <<>>
  /\ ret.kind = "error"

\* missing[k] of the spec: NaN or <= threshold
IsMissing(v, threshold) ==
  IsNaN(v) \/ (~IsNaN(threshold) /\ (v = threshold \/ DLt(v, threshold)))

\* the 1-based positions p in 2..length where missing flips
Flips(x, threshold) ==
  {p \in 2..Len(x) : IsMissing(x[p], threshold) # IsMissing(x[p - 1], threshold)}

\* C4: first_changepoint returns the smallest and last_changepoint the largest
\* 1-based position in 2..length where missing differs from the position
\* before; both are Undefined exactly when there is none; first is defined iff
\* last is, and then first <= last.
C4_changepoints ==
  /\ Done("cpp_left_changepoint") =>
       LET F    == Flips(call.x, call.what_na)
           last == cpp_right_changepoint(call.x, call.what_na).val
       IN /\ ret.val = (IF F = {} THEN NA_INTEGER ELSE Min(F))
          /\ (ret.val = NA_INTEGER) <=> (last = NA_INTEGER)
          /\ ret.val # NA_INTEGER => ret.val <= last
  /\ Done("cpp_right_changepoint") =>
       LET F == Flips(call.x, call.what_na)
       IN ret.val = (IF F = {} THEN NA_INTEGER ELSE Max(F))
  /\ cpp_left_changepoint(<<Num(0), Num(0), <<6, 5>>, <<3, 2>>, Num(2)>>, Num(0)).val = 3
  /\ cpp_right_changepoint(<<Num(0), Num(0), <<6, 5>>, <<3, 2>>, Num(0), Num(0)>>,
                           Num(0)).val = 5

C4_witness ==
  /\ Done("cpp_left_changepoint")
  /\ Cardinality(Flips(call.x, call.what_na)) >= 2
  /\ ret.val = 3
  /\ cpp_right_changepoint(call.x, call.what_na).val = 4

\* C5: missing_fraction is Undefined exactly for the empty sequence; otherwise
\* it is the number of missing elements over the length, lies in [0, 1], is 0
\* iff nothing is missing and 1 iff everything is.
C5_missing_fraction ==
  /\ Done("cpp_missing_frac") =>
       LET M == {i \in 1..Len(call.x) : IsMissing(call.x[i], call.what_na)}
       IN /\ IsNaN(ret.val) <=> call.x = <<>>
          /\ call.x # <<>> =>
               /\ ret.val = Norm(<<Cardinality(M), Len(call.x)>>)
               /\ DLe(Num(0), ret.val) /\ DLe(ret.val, Num(1))
               /\ ret.val = Num(0) <=> M = {}
               /\ ret.val = Num(1) <=> M = 1..Len(call.x)
  /\ cpp_missing_frac(<<<<6, 5>>, Num(0), <<3, 2>>, NaN, Num(0 - 1), Num(2)>>,
                      Num(0)).val = <<1, 2>>

C5_witness ==
  /\ Done("cpp_missing_frac")
  /\ Len(call.x) = 4
  /\ ret.val = <<3, 4>>
  /\ \E i \in 1..4 : IsNaN(call.x[i])

\* C6: with remove_na the paired sequences are filtered jointly (position i is
\* dropped from both iff f1[i] or f2[i] is NaN), keeping pairing and order; the
\* result is the Undefined pair iff nothing is retained; centroid returns the
\* means of the retained f1 and f2.
C6_joint_filter ==
  /\ Done("cpp_vowel_center") /\ call.na_rm =>
       LET K  == {i \in 1..Len(call.f1) : ~IsNaN(call.f1[i]) /\ ~IsNaN(call.f2[i])}
           k1 == KeepAt(call.f1, K, 1)
           k2 == KeepAt(call.f2, K, 1)
       IN /\ ret.f1_clean = k1
          /\ ret.f2_clean = k2
          /\ Len(ret.f1_clean) = Len(ret.f2_clean)
          /\ (ret.kind = "pair" /\ IsNaN(ret.f1c) /\ IsNaN(ret.f2c)) <=> K = {}
          /\ call.method = "centroid" /\ K # {} =>
               /\ ret.kind = "pair"
               /\ ret.f1c = DDiv(SetSum(call.f1, K), Num(Cardinality(K)))
               /\ ret.f2c = DDiv(SetSum(call.f2, K), Num(Cardinality(K)))
  /\ LET c == cpp_vowel_center(<<Num(300), Num(600), Num(600), Num(300)>>,
                               <<Num(2200), Num(1700), Num(1000), Num(900)>>,
                               "centroid", TRUE)
     IN c.f1c = Num(450) /\ c.f2c = Num(1450)

C6_witness ==
  /\ Done("cpp_vowel_center")
  /\ call.na_rm
  /\ call.method = "centroid"
  /\ Len(call.f1) = 3
  /\ IsNaN(call.f1[1]) /\ ~IsNaN(call.f2[1])
  /\ IsNaN(call.f2[2]) /\ ~IsNaN(call.f1[2])
  /\ Len(ret.f1_clean) = 1
  /\ ret.f1c = Num(1) /\ ret.f2c = Num(0)

\* no adjacent pair of x sums to zero
NoZeroPair(x) == \A i \in 2..Len(x) : DAdd(x[i], x[i - 1]) # Num(0)

\* C7: for a NaN-free x, rPVI(reverse(x)) = rPVI(x) and, when no adjacent pair
\* sums to zero, nPVI(reverse(x)) = nPVI(x); for length <= 1 both sides are
\* Undefined.
C7_reversal_invariance ==
  /\ Done("rPVI") /\ NoNaN(call.x) =>
       LET rev == rPVI(Reverse(call.x), call.narm, call.g, call.absInt, call.junk)
       IN /\ rev.val = ret.val
          /\ Len(call.x) >= 2 => IsFinite(ret.val)
          /\ Len(call.x) <= 1 => IsNaN(ret.val) /\ IsNaN(rev.val)
  /\ Done("nPVI") /\ NoNaN(call.x) /\ NoZeroPair(call.x) =>
       LET rev == nPVI(Reverse(call.x), call.narm, call.absInt, call.junk)
       IN /\ rev.val = ret.val
          /\ Len(call.x) >= 2 => IsFinite(ret.val)
          /\ Len(call.x) <= 1 => IsNaN(ret.val) /\ IsNaN(rev.val)

C7_witness ==
  /\ Done("rPVI")
  /\ ~call.absInt
  /\ call.x = <<Num(0), Num(2), Num(1)>>
  /\ ret.val = <<3, 2>>

JitterFns == {"jitter_local", "jitter_ddp", "jitter_rap", "jitter_ppq5"}

\* v lies in [lo, hi]
InRange(v, lo, hi) == ~IsNaN(v) /\ ~DLt(v, Num(lo)) /\ ~DLt(Num(hi), v)

\* the formulas of the spec, with the 0-based positions of the spec:
\* the centres i of the windows, whether window i is counted, its deviation
RefCentres(fn, n) ==
  IF fn = "jitter_local" THEN 1..(n - 1)
  ELSE IF fn = "jitter_ppq5" THEN 2..(n - 3)
  ELSE 1..(n - 2)

RefCounted(fn, x, i, lo, hi) ==
  IF fn = "jitter_local"
  THEN InRange(At(x, i - 1), lo, hi) /\ InRange(At(x, i), lo, hi)
  ELSE InRange(At(x, i), lo, hi)

RefDev(fn, x, i) ==
  IF fn = "jitter_local" THEN DAbs(DSub(At(x, i), At(x, i - 1)))
  ELSE IF fn = "jitter_ddp"
  THEN DAbs(DSub(DSub(At(x, i + 1), At(x, i)), DSub(At(x, i), At(x, i - 1))))
  ELSE IF fn = "jitter_rap"
  THEN DAbs(DSub(At(x, i),
                 DDiv(SetSum(x, {i, i + 1, i + 2}), Num(3))))
  ELSE DAbs(DSub(At(x, i),
                 DDiv(SetSum(x, {i - 1, i, i + 1, i + 2, i + 3}), Num(5))))

RefTotaldev(fn, x, lo, hi) ==
  LET C == {i \in RefCentres(fn, Len(x)) : RefCounted(fn, x, i, lo, hi)}
  IN SetSum([i \in C |-> RefDev(fn, x, i)], C)

\* the length up to which the routine is Undefined, and its divisor
RefShort(fn) ==
  IF fn = "jitter_local" THEN 1 ELSE IF fn = "jitter_ppq5" THEN 4 ELSE 3
RefDivisor(fn, n) ==
  IF fn = "jitter_local" THEN n - 1 ELSE IF fn = "jitter_ppq5" THEN n - 4 ELSE n - 2

\* the seed of sum
RefSeed(fn, x) ==
  LET n == Len(x)
  IN IF fn = "jitter_local" THEN At(x, 0)
     ELSE IF fn = "jitter_ppq5" THEN SetSum(x, {1, 2, n - 1, n})
     ELSE SetSum(x, {1, n})

NoPointInRange(x, lo, hi) == \A i \in 1..Len(x) : ~InRange(x[i], lo, hi)

\* C9 as stated: when the input passes the length guard and no point lies in
\* [minperiod, maxperiod], totaldev is 0, sum is the seed and the result is a
\* valid number in absolute and in relative mode, also when the seed sum is 0
\* (stated here for the inputs that hold no NaN when the loop runs).
C9_degenerate_is_number ==
  pc = "done" /\ call.fn \in JitterFns =>
    LET xf == Filtered(call.x, call.narm)
    IN Len(xf) > RefShort(call.fn)
       /\ NoNaN(xf)
       /\ NoPointInRange(xf, call.minperiod, call.maxperiod)
       => /\ ret.totaldev = Num(0)
          /\ ret.sum = RefSeed(call.fn, xf)
          /\ IsFinite(ret.val)

\* C9 amended: in that case totaldev is 0 and sum is the seed; the absolute
\* result is 0; the relative result is 0 when the seed sum is a non-zero
\* number and NaN (Undefined) when the seed sum is 0 or NaN.
C9_degenerate_result ==
  pc = "done" /\ call.fn \in JitterFns =>
    LET xf   == Filtered(call.x, call.narm)
        seed == RefSeed(call.fn, xf)
    IN Len(xf) > RefShort(call.fn)
       /\ NoPointInRange(xf, call.minperiod, call.maxperiod)
       => /\ ret.totaldev = Num(0)
          /\ ret.sum = seed
          /\ call.absolute => ret.val = Num(0)
          /\ ~call.absolute /\ IsFinite(seed) /\ seed # Num(0) => ret.val = Num(0)
          /\ ~call.absolute /\ (seed = Num(0) \/ IsNaN(seed)) => IsNaN(ret.val)

C9_witness ==
  /\ Done("jitter_rap")
  /\ ~call.absolute
  /\ call.narm
  /\ Len(call.x) = 4
  /\ NoPointInRange(call.x, call.minperiod, call.maxperiod)
  /\ RefSeed("jitter_rap", call.x) = Num(0)
  /\ IsNaN(ret.val)

\* the 1-based positions of y that are kept
Retained(y, threshold) == {i \in 1..Len(y) : ~IsMissing(y[i], threshold)}

\* C10: lm_slope and peak_prominence are Undefined exactly when fewer than 2
\* elements of y are retained; with at least 2 retained their positions are
\* distinct, the position variance is strictly positive and the zero-variance
\* branch is not taken; peak_prominence is Undefined for the same inputs as
\* lm_slope.
C10_trend_undefined_iff_short ==
  /\ Done("cpp_lm_slope") =>
       LET R == Retained(call.x, call.what_na)
       IN /\ IsNaN(ret.val) <=> Cardinality(R) < 2
          /\ ret.branch # "zerovar"
          /\ Cardinality(R) >= 2 =>
               /\ {ret.x_clean[k] : k \in 1..Len(ret.x_clean)} = {Num(i) : i \in R}
               /\ Len(ret.x_clean) = Cardinality(R)
               /\ DGt(ret.denom, Num(0))
  /\ Done("cpp_peak_prominence") =>
       /\ IsNaN(ret.val) <=> Cardinality(Retained(call.x, call.what_na)) < 2
       /\ IsNaN(ret.val) <=> IsNaN(cpp_lm_slope(call.x, call.what_na).val)
       /\ ret.branch # "zerovar"

C10_witness ==
  /\ Done("cpp_lm_slope")
  /\ Len(call.x) = 4
  /\ Retained(call.x, call.what_na) = {2, 4}
  /\ ret.branch = "fit"
  /\ ret.denom = Num(2)

\* the retained pair of sequences: jointly filtered when na_rm is set
Kept(f1, f2, na_rm) ==
  {i \in 1..Len(f1) : ~na_rm \/ (~IsNaN(f1[i]) /\ ~IsNaN(f2[i]))}

\* mean of f over the non-empty set of positions S
MeanOver(f, S) == DDiv(SetSum(f, S), Num(Cardinality(S)))

\* mean of f over S, 0 when S is empty
MeanOrZero(f, S) == IF S = {} THEN Num(0) ELSE MeanOver(f, S)

\* what C11 says of one twomeans call, except for when the upper group is empty
TwoMeansSplit(K, U) ==
  /\ ret.kind = "pair"
  /\ ret.f1c = MeanOver(call.f1, K)
  /\ ret.f2_upper = KeepAt(call.f2, U, 1)
  /\ ret.f2_lower = KeepAt(call.f2, K \ U, 1)
  /\ ret.f2c = DDiv(DAdd(MeanOrZero(call.f2, U), MeanOrZero(call.f2, K \ U)), Num(2))
  /\ K \ U # {}
  /\ U = {} => ret.f2c = DDiv(MeanOver(call.f2, K), Num(2))

\* the positions whose f1 is strictly greater than c1 = mean(f1)
UpperOf(K) ==
  {i \in K : ~IsNaN(call.f1[i]) /\ DLt(MeanOver(call.f1, K), call.f1[i])}

\* C11 as stated: for twomeans on a non-empty retained pair, c1 = mean(f1),
\* a point is in the upper group iff its f1 > c1, c2 is the mean of the two
\* group means (0 for an empty group), the lower group is never empty, and
\* the upper group is empty exactly when all retained f1 values are equal,
\* c2 then being mean(f2)/2.
C11_twomeans_as_stated ==
  Done("cpp_vowel_center") /\ call.method = "twomeans" =>
    LET K == Kept(call.f1, call.f2, call.na_rm)
        U == UpperOf(K)
    IN K # {} =>
         /\ TwoMeansSplit(K, U)
         /\ U = {} <=> \A i, j \in K : call.f1[i] = call.f1[j]

\* C11 amended: the same, with the upper group empty exactly when all
\* retained f1 values are equal or some retained f1 value is NaN (c1 is then
\* NaN and no f1 compares greater; only without na_rm).
C11_twomeans ==
  Done("cpp_vowel_center") /\ call.method = "twomeans" =>
    LET K == Kept(call.f1, call.f2, call.na_rm)
        U == UpperOf(K)
    IN K # {} =>
         /\ TwoMeansSplit(K, U)
         /\ U = {} <=> \/ \A i, j \in K : call.f1[i] = call.f1[j]
                       \/ \E i \in K : IsNaN(call.f1[i])

C11_witness ==
  /\ Done("cpp_vowel_center")
  /\ call.method = "twomeans"
  /\ ~call.na_rm
  /\ call.f1 = <<NaN, Num(1), Num(0)>>
  /\ call.f2 = <<Num(1), Num(1), Num(0)>>
  /\ ret.f2_upper = <<>>
  /\ IsNaN(ret.f1c)
  /\ ret.f2c = <<1, 3>>

\* C12: a relstab call with compstart >= 5 and filtered length >= compstop - 1
\* reads the positions 0..3 and compstart-1..compstop-1, all of them valid
\* 0-based positions of the filtered sequence; it returns Undefined without
\* reading any element exactly when the filtered length is < compstop - 1
\* (stated here for the calls whose window is not empty, compstart <= compstop).
C12_relstab_reads_in_bounds ==
  Done("cppRelstab") /\ call.compstart >= 5 /\ call.compstart <= call.compstop =>
    LET n == Len(Filtered(call.x, call.narm))
    IN /\ n >= call.compstop - 1 =>
            /\ ret.reads = (0..3) \cup ((call.compstart - 1)..(call.compstop - 1))
            /\ \A i \in ret.reads : 0 <= i /\ i < n
            /\ ~ret.oob
       /\ n < call.compstop - 1 => IsNaN(ret.val) /\ ret.reads = {}
       /\ ret.reads = {} => n < call.compstop - 1

\* C13: cov5_x returns Undefined (return_na) or raises exactly when the
\* filtered length is < n; past that guard the positions it reads, 0..3 and
\* 4..n-1, are valid positions of the filtered sequence, the window holds
\* n - 4 >= 2 elements and the sample-SD denominator (n - 4) - 1 is positive
\* (stated here for n >= 1).
C13_cov5_reads_in_bounds ==
  Done("cpp_cov5_x") /\ call.n >= 1 =>
    LET N == Len(Filtered(call.x, call.na_rm))
    IN /\ ret.branch = "short" <=> N < call.n
       /\ N < call.n =>
            IF call.return_na THEN ret.kind = "value" /\ IsNaN(ret.val)
            ELSE ret.kind = "error"
       /\ N >= call.n =>
            /\ ret.reads = (0..3) \cup (4..(call.n - 1))
            /\ \A i \in ret.reads : 0 <= i /\ i < N
            /\ ~ret.oob
            /\ ret.comp_n = call.n - 4
            /\ ret.comp_n >= 2
            /\ ret.comp_n - 1 > 0

=============================================================================
